---- MODULE Spec2Model ----
(***************************************************************************)
(* A model of two parts of rusoto:                                         *)
(*   - rusoto/core/src/future.rs: RusotoFuture, the two-phase future every *)
(*     generated service call returns;                                     *)
(*   - codegen/src/generator/mod.rs: the generator that turns a botocore   *)
(*     service description into Rust source.                               *)
(* The two parts share no state; each has its own specification.           *)
(***************************************************************************)
EXTENDS Integers, Sequences, FiniteSets, TLC

\* ------------------------------------------------------------------ bounds
\* the number of calls of RusotoFuture::poll in one behaviour
MaxPolls == 3
\* durations a caller passes to set_timeout / with_timeout: 1..MaxTimeout
MaxTimeout == 2
\* the values of T (and the responses of phase 1): 1..MaxValue
MaxValue == 2

VARIABLES
    \* ---- RusotoFuture (future.rs)
    state,          \* the tag of RusotoFuture.state: "SignAndDispatch",
                    \* "RunningResponseHandler", or "None" (Option::None)
    timeout,        \* the timeout of the phase-1 future (0: none set)
    inner,          \* the phase-2 future held by RunningResponseHandler
    ret,            \* what the last call of poll returned
    syncRes,        \* the caller's view of sync(): not called, running, its result
    origin,         \* how the future was built: new() or From<Result>
    lastOp,         \* the last method called on the future, and its argument
    signPolls,      \* calls of poll on the phase-1 future
    handlerCalls,   \* calls of the response handler
    respPolls,      \* calls of poll on the phase-2 future
    sig,            \* what the phase-1 future last returned
    rsp             \* what the phase-2 future last returned

futVars == <<state, timeout, inner, ret, syncRes, origin, lastOp,
             signPolls, handlerCalls, respPolls, sig, rsp>>

\* ---- the generator (generator/mod.rs): one run of generate_source
VARIABLES
    pc,             \* where the run is: "start", "types", "body", "returned", "panicked"
    result,         \* how the run ended: "Ok", "Err(io)", or what it panicked on
    input,          \* what the run was given: the protocol, whether File::create succeeds
    generator,      \* the protocol and error type generators picked
    seen,           \* the names of the shapes generate_types has visited
    cur,            \* the shape of the last iteration of generate_types
    chunk           \* what that iteration wrote to the file

genVars == <<pc, result, input, generator, seen, cur, chunk>>

\* ---- generate_struct_fields, member by member
VARIABLES
    fpc,            \* "iter" while the filter_map runs, "joined" after the join
    serde_attrs,    \* the serde_attrs argument
    required,       \* shape.required, as far as the members visited go
    members,        \* the members visited, in the order of the iteration
    fields,         \* the fields emitted for them
    joined          \* the fields of the returned text

fldVars == <<fpc, serde_attrs, required, members, fields, joined>>

vars == <<futVars, genVars, fldVars>>

\* ------------------------------------------------------------ future.rs
Values == 1..MaxValue
Durations == 1..MaxTimeout
NoTimeout == 0

\* E: From<CredentialsError> + From<HttpDispatchError>  (err.into())
IntoE(err) ==
    CASE err = "Credentials" -> "E:credentials"
      [] err = "Dispatch" -> "E:dispatch"

\* the errors a response handler's future, or a mocked Result, may carry
HandlerErrors == {"E:service", "E:parse"}

NoInner == [kind |-> "none", ok |-> TRUE, val |-> 0, err |-> ""]
NoRet == [kind |-> "none", val |-> 0, err |-> ""]
NotReady == [kind |-> "NotReady", val |-> 0, err |-> ""]
Ready(v) == [kind |-> "Ready", val |-> v, err |-> ""]
Err(e) == [kind |-> "Err", val |-> 0, err |-> e]
Panic == [kind |-> "panic", val |-> 0, err |-> ""]

\* what a poll of the phase-1 future (sign and dispatch) may return
SignOutcomes ==
    {[kind |-> "NotReady", resp |-> 0, err |-> ""]}
    \cup {[kind |-> "Ready", resp |-> r, err |-> ""] : r \in Values}
    \cup {[kind |-> "Err", resp |-> 0, err |-> e] : e \in {"Credentials", "Dispatch"}}

\* handler(response): the boxed future that parses the response
handler(response) == [kind |-> "handler", ok |-> TRUE, val |-> response, err |-> ""]

\* value.into_future(): a FutureResult holding the Result
into_future(ok, v, e) == [kind |-> "result", ok |-> ok, val |-> v, err |-> e]

\* what a poll of the phase-2 future f may return: a FutureResult yields its
\* Result at once, a response handler's future anything
RespOutcomes(f) ==
    IF f.kind = "result"
    THEN {IF f.ok THEN Ready(f.val) ELSE Err(f.err)}
    ELSE {NotReady} \cup {Ready(v) : v \in Values} \cup {Err(e) : e \in HandlerErrors}

\* a From that builds the state new() builds
from_as_new(ok, v, e) ==
    /\ state = "SignAndDispatch"
    /\ timeout = NoTimeout
    /\ inner = into_future(ok, v, e)
    /\ origin = [kind |-> "from", ok |-> ok, val |-> v, err |-> e]

\* new(future, handler)
new(t) ==
    /\ state = "SignAndDispatch"
    /\ timeout = t
    /\ inner = NoInner
    /\ origin = [kind |-> "new", ok |-> TRUE, val |-> 0, err |-> ""]

\* impl From<Result<T, E>> for RusotoFuture
from(ok, v, e) ==
    /\ state = "RunningResponseHandler"
    /\ timeout = NoTimeout
    /\ inner = into_future(ok, v, e)
    /\ origin = [kind |-> "from", ok |-> ok, val |-> v, err |-> e]

FutInit ==
    /\ \/ \E t \in {NoTimeout} \cup Durations : new(t)
       \/ \E v \in Values : from(TRUE, v, "")
       \/ \E e \in HandlerErrors : from(FALSE, 0, e)
    /\ ret = NoRet
    /\ syncRes = NoRet
    /\ lastOp = [op |-> "construct", arg |-> 0]
    /\ signPolls = 0
    /\ handlerCalls = 0
    /\ respPolls = 0
    /\ sig = "none"
    /\ rsp = NoRet

\* the caller's side of sync(): wait() returns the result poll resolves to
Waited(r) ==
    IF syncRes.kind = "running" /\ r.kind \in {"Ready", "Err"} THEN r ELSE syncRes

\* a poll whose RunningResponseHandler arm does not store the state again when
\* the future is not ready
poll_RunningResponseHandler_not_stored(f, r2) ==
    /\ respPolls' = respPolls + 1
    /\ rsp' = r2
    /\ ret' = r2
    /\ syncRes' = Waited(r2)
    /\ state' = "None" /\ inner' = NoInner

\* poll, the RunningResponseHandler arm: future.poll()? with outcome r2
poll_RunningResponseHandler(f, r2) ==
    /\ respPolls' = respPolls + 1
    /\ rsp' = r2
    /\ ret' = r2
    /\ syncRes' = Waited(r2)
    /\ IF r2.kind = "NotReady"
       THEN state' = "RunningResponseHandler" /\ inner' = f
       ELSE state' = "None" /\ inner' = NoInner

\* a poll that, when the response handler's future is not ready, stores the
\* sign-and-dispatch state again
poll_SignAndDispatch_restored(r1) ==
    /\ signPolls' = signPolls + 1
    /\ sig' = IF r1.kind = "Err" THEN r1.err ELSE r1.kind
    /\ CASE r1.kind = "Err" ->
              /\ ret' = Err(IntoE(r1.err))
              /\ syncRes' = Waited(Err(IntoE(r1.err)))
              /\ state' = "None" /\ inner' = NoInner /\ timeout' = NoTimeout
              /\ UNCHANGED <<handlerCalls, respPolls, rsp>>
         [] r1.kind = "Ready" ->
              /\ handlerCalls' = handlerCalls + 1
              /\ \E r2 \in RespOutcomes(handler(r1.resp)) :
                    /\ respPolls' = respPolls + 1
                    /\ rsp' = r2
                    /\ ret' = r2
                    /\ syncRes' = Waited(r2)
                    /\ IF r2.kind = "NotReady"
                       THEN state' = "SignAndDispatch" /\ UNCHANGED <<inner, timeout>>
                       ELSE state' = "None" /\ inner' = NoInner /\ timeout' = NoTimeout
         [] r1.kind = "NotReady" ->
              /\ state' = "SignAndDispatch"
              /\ ret' = NotReady
              /\ syncRes' = Waited(NotReady)
              /\ UNCHANGED <<inner, timeout, handlerCalls, respPolls, rsp>>

\* a poll that keeps the sign-and-dispatch future after its error, to try again
poll_SignAndDispatch_retry(r1) ==
    /\ signPolls' = signPolls + 1
    /\ sig' = IF r1.kind = "Err" THEN r1.err ELSE r1.kind
    /\ CASE r1.kind = "Err" ->
              /\ ret' = Err(IntoE(r1.err))
              /\ syncRes' = Waited(Err(IntoE(r1.err)))
              /\ state' = "SignAndDispatch"
              /\ UNCHANGED <<inner, timeout, handlerCalls, respPolls, rsp>>
         [] r1.kind = "Ready" ->
              /\ handlerCalls' = handlerCalls + 1
              /\ timeout' = NoTimeout
              /\ \E r2 \in RespOutcomes(handler(r1.resp)) :
                    poll_RunningResponseHandler(handler(r1.resp), r2)
         [] r1.kind = "NotReady" ->
              /\ state' = "SignAndDispatch"
              /\ ret' = NotReady
              /\ syncRes' = Waited(NotReady)
              /\ UNCHANGED <<inner, timeout, handlerCalls, respPolls, rsp>>

\* poll, the SignAndDispatch arm: future.poll() with outcome r1; on a response
\* the handler is run and poll calls itself, reaching the other arm (outcome r2)
poll_SignAndDispatch(r1) ==
    /\ signPolls' = signPolls + 1
    /\ sig' = IF r1.kind = "Err" THEN r1.err ELSE r1.kind
    /\ CASE r1.kind = "Err" ->
              /\ ret' = Err(IntoE(r1.err))
              /\ syncRes' = Waited(Err(IntoE(r1.err)))
              /\ state' = "None" /\ inner' = NoInner /\ timeout' = NoTimeout
              /\ UNCHANGED <<handlerCalls, respPolls, rsp>>
         [] r1.kind = "Ready" ->
              /\ handlerCalls' = handlerCalls + 1
              /\ timeout' = NoTimeout
              /\ \E r2 \in RespOutcomes(handler(r1.resp)) :
                    poll_RunningResponseHandler(handler(r1.resp), r2)
         [] r1.kind = "NotReady" ->
              /\ state' = "SignAndDispatch"
              /\ ret' = NotReady
              /\ syncRes' = Waited(NotReady)
              /\ UNCHANGED <<inner, timeout, handlerCalls, respPolls, rsp>>

\* impl Future for RusotoFuture: poll
Poll ==
    /\ ret.kind # "panic"
    /\ signPolls + respPolls < MaxPolls
    \* the executor of sync() polls no task that has completed
    /\ syncRes.kind \notin {"Ready", "Err"}
    /\ lastOp' = [op |-> "poll", arg |-> 0]
    /\ UNCHANGED <<origin, genVars, fldVars>>
    /\ CASE state = "None" ->
              \* self.state.take().unwrap() on None
              /\ ret' = Panic
              /\ UNCHANGED <<state, timeout, inner, syncRes, signPolls,
                             handlerCalls, respPolls, sig, rsp>>
         [] state = "SignAndDispatch" ->
              \E r1 \in SignOutcomes : poll_SignAndDispatch(r1)
         [] state = "RunningResponseHandler" ->
              /\ \E r2 \in RespOutcomes(inner) : poll_RunningResponseHandler(inner, r2)
              /\ UNCHANGED <<timeout, signPolls, handlerCalls, sig>>

\* a set_timeout that does not look at the state
set_timeout_any_state(d) ==
    /\ timeout' = d
    /\ UNCHANGED <<state, inner>>

\* set_timeout: only the SignAndDispatch state holds a future with a timeout
set_timeout(d) ==
    /\ timeout' = IF state = "SignAndDispatch" THEN d ELSE timeout
    /\ UNCHANGED <<state, inner>>

\* clear_timeout
clear_timeout ==
    /\ timeout' = IF state = "SignAndDispatch" THEN NoTimeout ELSE timeout
    /\ UNCHANGED <<state, inner>>

\* a caller that still owns the future (sync and with_timeout take self by value)
Owned == ret.kind # "panic" /\ syncRes.kind = "none"

SetTimeout ==
    /\ Owned
    /\ \E d \in Durations :
          /\ set_timeout(d)
          /\ lastOp' = [op |-> "set_timeout", arg |-> d]
    /\ UNCHANGED <<ret, syncRes, origin, signPolls, handlerCalls, respPolls, sig, rsp>>
    /\ UNCHANGED <<genVars, fldVars>>

\* with_timeout(mut self, timeout): self.set_timeout(timeout); self
WithTimeout ==
    /\ Owned
    /\ \E d \in Durations :
          /\ set_timeout(d)
          /\ lastOp' = [op |-> "with_timeout", arg |-> d]
    /\ UNCHANGED <<ret, syncRes, origin, signPolls, handlerCalls, respPolls, sig, rsp>>
    /\ UNCHANGED <<genVars, fldVars>>

ClearTimeout ==
    /\ Owned
    /\ clear_timeout
    /\ lastOp' = [op |-> "clear_timeout", arg |-> 0]
    /\ UNCHANGED <<ret, syncRes, origin, signPolls, handlerCalls, respPolls, sig, rsp>>
    /\ UNCHANGED <<genVars, fldVars>>

\* sync(self): spawn(self, executor).wait(); the executor then polls the future
Sync ==
    /\ Owned
    /\ syncRes' = [kind |-> "running", val |-> 0, err |-> ""]
    /\ lastOp' = [op |-> "sync", arg |-> 0]
    /\ UNCHANGED <<state, timeout, inner, ret, origin, signPolls, handlerCalls,
                   respPolls, sig, rsp, genVars, fldVars>>

FutNext == Poll \/ SetTimeout \/ WithTimeout \/ ClearTimeout \/ Sync


\* ------------------------------------------------- generator/mod.rs: names
\* Names are sequences of characters.
LowerCase == <<"a","b","c","d","e","f","g","h","i","j","k","l","m",
               "n","o","p","q","r","s","t","u","v","w","x","y","z">>
UpperCase == <<"A","B","C","D","E","F","G","H","I","J","K","L","M",
               "N","O","P","Q","R","S","T","U","V","W","X","Y","Z">>
Digits == {"0","1","2","3","4","5","6","7","8","9"}

Range(q) == {q[i] : i \in DOMAIN q}
is_lowercase(c) == c \in Range(LowerCase)
is_uppercase(c) == c \in Range(UpperCase)
is_alphanumeric(c) == is_lowercase(c) \/ is_uppercase(c) \/ c \in Digits
IndexIn(q, c) == CHOOSE i \in DOMAIN q : q[i] = c
to_uppercase(c) == IF is_lowercase(c) THEN UpperCase[IndexIn(LowerCase, c)] ELSE c
to_lowercase(c) == IF is_uppercase(c) THEN LowerCase[IndexIn(UpperCase, c)] ELSE c

\* str::trim_right_matches(|c| !c.is_alphanumeric())
RECURSIVE trim_right(_)
trim_right(s) ==
    IF s = <<>> \/ is_alphanumeric(s[Len(s)]) THEN s
    ELSE trim_right(SubSeq(s, 1, Len(s) - 1))

\* chars().nth(i).unwrap_or('A').is_lowercase(), i counted from 0 over s
nth_is_lowercase(s, i) == i >= 0 /\ i < Len(s) /\ is_lowercase(s[i + 1])

\* Inflector's to_snake_case (member_name.to_snake_case()): the characters of
\* the trimmed name from position i (from 1) on, appended to acc; first is the
\* first_character flag of the loop
RECURSIVE snake_from(_, _, _, _, _)
snake_from(s, t, i, first, acc) ==
    IF i > Len(t) THEN acc
    ELSE LET c == t[i] IN
         IF ~is_alphanumeric(c)
         THEN IF ~first
              THEN snake_from(s, t, i + 1, TRUE, Append(acc, "_"))
              ELSE snake_from(s, t, i + 1, first, acc)
         ELSE IF /\ ~first
                 /\ is_uppercase(c)
                 /\ (nth_is_lowercase(s, i) \/ nth_is_lowercase(s, i - 2))
              THEN snake_from(s, t, i + 1, FALSE, acc \o <<"_", to_lowercase(c)>>)
              ELSE snake_from(s, t, i + 1, FALSE, Append(acc, to_lowercase(c)))

to_snake_case(s) == snake_from(s, trim_right(s), 1, TRUE, <<>>)

kw_return == <<"r","e","t","u","r","n">>
kw_type == <<"t","y","p","e">>

\* a generate_field_name that escapes no reserved word
generate_field_name_unescaped(member_name) == to_snake_case(member_name)

\* generate_field_name
generate_field_name(member_name) ==
    LET name == to_snake_case(member_name) IN
    IF name = kw_return \/ name = kw_type THEN Append(name, "_") ELSE name

\* capitalize_first
capitalize_first(word) ==
    IF word = <<>> THEN <<>> ELSE <<to_uppercase(Head(word))>> \o Tail(word)

\* str::replace("_", "")
without_underscores(s) == SelectSeq(s, LAMBDA c : c # "_")

n_Error == <<"E","r","r","o","r">>
n_S3Error == <<"S","3">> \o n_Error
n_CancelSpotFleetRequests ==
    <<"C","a","n","c","e","l","S","p","o","t","F","l","e","e","t",
      "R","e","q","u","e","s","t","s">>
n_EC2CancelSpotFleetRequests == <<"E","C","2">> \o n_CancelSpotFleetRequests
n_String == <<"S","t","r","i","n","g">>

\* mutate_type_name
mutate_type_name(type_name) ==
    LET capitalized == capitalize_first(type_name)
        stripped == without_underscores(capitalized)
    IN  CASE stripped = n_Error -> n_S3Error
          [] stripped = n_CancelSpotFleetRequests -> n_EC2CancelSpotFleetRequests
          [] OTHER -> stripped


\* ------------------------------------- generator/mod.rs: structure fields
\* the members of one structure shape
MaxMembers == 2

m_Return == <<"R","e","t","u","r","n">>
m_Id == <<"I","d">>
s_blob == <<"b","l","o","b","_","t">>
s_Flag == <<"F","l","a","g">>

\* the member names, and the shapes members refer to, that structures are drawn from
MemberNames == {kw_type, m_Return, m_Id}
MemberShapes == {s_blob, s_Flag}
Deprecations == {"None", "Some(false)", "Some(true)"}
MemberInputs ==
    [name : MemberNames, shape : MemberShapes, deprecated : Deprecations,
     documentation : BOOLEAN]

\* service.shape_type_for_member(member), in the service the structures are part of
shape_type_for_member(member) ==
    CASE member.shape = s_blob -> "Blob"
      [] member.shape = s_Flag -> "Boolean"
      [] member.shape = n_Error -> "Structure"
      [] OTHER -> "None"

\* the serde attribute lines of one field (generate_struct_fields, if serde_attrs)
serde_lines(member, is_required) ==
    <<"rename">> \o
    (CASE shape_type_for_member(member) = "Blob" -> <<"blob">>
       [] shape_type_for_member(member) = "Boolean" /\ ~is_required -> <<"skip_none">>
       [] OTHER -> <<>>)

\* a closure that takes every member with a deprecated flag, set or not, as deprecated
struct_field_any_flag(shape_required, member, serde) ==
    IF member.deprecated # "None" THEN <<>>
    ELSE
      LET name == generate_field_name(member.name)
          type_name == mutate_type_name(member.shape)
          is_required == member.name \in shape_required
          attrs == (IF member.documentation THEN <<"doc">> ELSE <<>>)
                   \o (IF serde THEN serde_lines(member, is_required) ELSE <<>>)
      IN  << [attrs |-> attrs, prefix |-> "", id |-> name, ty |-> type_name,
              optional |-> ~is_required] >>

\* a closure that looks the translated field name up in the required set
struct_field_required_by_field(shape_required, member, serde) ==
    IF member.deprecated = "Some(true)" THEN <<>>
    ELSE
      LET name == generate_field_name(member.name)
          type_name == mutate_type_name(member.shape)
          is_required == name \in shape_required
          attrs == (IF member.documentation THEN <<"doc">> ELSE <<>>)
                   \o (IF serde THEN serde_lines(member, is_required) ELSE <<>>)
      IN  << [attrs |-> attrs, prefix |-> "", id |-> name, ty |-> type_name,
              optional |-> ~is_required] >>

\* the closure of generate_struct_fields: the field of one member, as a sequence
\* of no field (None) or one (Some(lines.join("\n")))
struct_field(shape_required, member, serde) ==
    IF member.deprecated = "Some(true)" THEN <<>>
    ELSE
      LET name == generate_field_name(member.name)
          type_name == mutate_type_name(member.shape)
          is_required == member.name \in shape_required
          attrs == (IF member.documentation THEN <<"doc">> ELSE <<>>)
                   \o (IF serde THEN serde_lines(member, is_required) ELSE <<>>)
      IN  << CASE is_required ->
                    [attrs |-> attrs, prefix |-> "", id |-> name,
                     ty |-> type_name, optional |-> FALSE]
               [] ~is_required /\ name = kw_type ->
                    [attrs |-> attrs, prefix |-> "aws_", id |-> name,
                     ty |-> type_name, optional |-> TRUE]
               [] OTHER ->
                    [attrs |-> attrs, prefix |-> "", id |-> name,
                     ty |-> type_name, optional |-> TRUE] >>

\* generate_struct_fields: filter_map over the members, collected and joined
RECURSIVE generate_struct_fields(_, _, _)
generate_struct_fields(shape_members, shape_required, serde) ==
    IF shape_members = <<>> THEN <<>>
    ELSE struct_field(shape_required, Head(shape_members), serde)
         \o generate_struct_fields(Tail(shape_members), shape_required, serde)

FldInit ==
    /\ fpc = "iter"
    /\ serde_attrs \in BOOLEAN
    /\ required = {}
    /\ members = <<>>
    /\ fields = <<>>
    /\ joined = <<>>

\* one turn of the filter_map: the iterator yields the next member of the map
\* (its keys are distinct) and the closure runs on it
FieldStep ==
    /\ fpc = "iter"
    /\ Len(members) < MaxMembers
    /\ \E m \in MemberInputs, in_required \in BOOLEAN :
          /\ \A i \in DOMAIN members : members[i].name # m.name
          /\ members' = Append(members, m)
          /\ required' = IF in_required THEN required \cup {m.name} ELSE required
          /\ fields' = fields \o struct_field(required', m, serde_attrs)
    /\ UNCHANGED <<fpc, serde_attrs, joined, futVars, genVars>>

\* the iterator is exhausted: collect::<Vec<String>>().join("\n"); generate_struct
\* calls generate_struct_fields only for a structure with members
FieldsJoin ==
    /\ fpc = "iter"
    /\ members # <<>>
    /\ fpc' = "joined"
    /\ joined' = fields
    /\ UNCHANGED <<serde_attrs, required, members, fields, futVars, genVars>>

FldNext == FieldStep \/ FieldsJoin

\* ------------------------------------ generator/mod.rs: generate_source
\* the shapes of one service
MaxShapes == 2

n_a_b == <<"a","_","b">>
n_Str_ing == <<"S","t","r","_","i","n","g">>

Protocols == {"json", "query", "ec2", "rest-json", "rest-xml", "soap"}

\* ShapeType, but for List, Map and Structure
Primitives == {"Blob", "Boolean", "Double", "Float", "Integer", "Long",
               "String", "Timestamp"}

\* the shape names services are drawn from, and the shapes lists and maps refer to
ShapeNames == {n_String, n_Str_ing, n_Error}
RefShapes == {n_Error, n_a_b}

member_Id(dep) ==
    [name |-> m_Id, shape |-> s_blob, deprecated |-> dep, documentation |-> FALSE]
member_type(dep) ==
    [name |-> kw_type, shape |-> n_Error, deprecated |-> dep, documentation |-> TRUE]

\* shape.members of the structures drawn: None, no member, and a few member maps
NoMembers == [some |-> FALSE, map |-> <<>>]
MemberMaps ==
    {NoMembers, [some |-> TRUE, map |-> <<>>],
     [some |-> TRUE, map |-> <<member_type("Some(true)"), member_Id("Some(false)")>>]}

\* what differs between shapes of one name: the type and what belongs to it
ShapeBodies ==
    [shape_type : Primitives, members : {NoMembers}, required : {{}},
     member : {<<>>}, key : {<<>>}, value : {<<>>}]
    \cup [shape_type : {"List"}, members : {NoMembers}, required : {{}},
          member : RefShapes, key : {<<>>}, value : {<<>>}]
    \cup [shape_type : {"Map"}, members : {NoMembers}, required : {{}},
          member : {<<>>}, key : RefShapes, value : RefShapes]
    \cup [shape_type : {"Structure"}, members : MemberMaps, required : {{m_Id}},
          member : {<<>>}, key : {<<>>}, value : {<<>>}]

\* what the iteration over service.shapes yields: (name, shape)
ShapeInputs ==
    [name : ShapeNames, exception : BOOLEAN, documentation : BOOLEAN,
     body : ShapeBodies]

\* an item written to the file
Item(kind, name) ==
    [kind |-> kind, name |-> name, alias |-> "", key |-> <<>>, value |-> <<>>,
     serde |-> FALSE, fields |-> <<>>]

Declarations == {"struct", "unit_struct", "map", "list", "primitive"}

\* generate_list
generate_list(name, shape) ==
    [Item("list", name) EXCEPT !.value = mutate_type_name(shape.member)]

\* generate_map
generate_map(name, shape) ==
    [Item("map", name) EXCEPT !.key = capitalize_first(shape.key),
                              !.value = capitalize_first(shape.value)]

\* generate_primitive_type; "panic" for a shape type that is no primitive
generate_primitive_type(name, shape_type, for_timestamps) ==
    CASE shape_type = "Blob" -> [Item("primitive", name) EXCEPT !.alias = "Vec<u8>"]
      [] shape_type = "Boolean" -> [Item("primitive", name) EXCEPT !.alias = "bool"]
      [] shape_type = "Double" -> [Item("primitive", name) EXCEPT !.alias = "f64"]
      [] shape_type = "Float" -> [Item("primitive", name) EXCEPT !.alias = "f32"]
      [] shape_type = "Integer" -> [Item("primitive", name) EXCEPT !.alias = "i32"]
      [] shape_type = "Long" -> [Item("primitive", name) EXCEPT !.alias = "i64"]
      [] shape_type = "String" -> [Item("primitive", name) EXCEPT !.alias = "String"]
      [] shape_type = "Timestamp" ->
            [Item("primitive", name) EXCEPT !.alias = for_timestamps]
      [] OTHER -> Item("panic", name)

\* generate_struct; need_serde_attrs is struct_attributes.contains("erialize"),
\* which the protocol's generate_struct_attributes decides
generate_struct(name, shape, need_serde_attrs) ==
    IF ~shape.members.some \/ shape.members.map = <<>>
    THEN Item("unit_struct", name)
    ELSE [Item("struct", name) EXCEPT
            !.serde = need_serde_attrs,
            !.fields = generate_struct_fields(shape.members.map, shape.required,
                                              need_serde_attrs)]

\* the match on shape.shape_type in generate_types
generated_type(type_name, shape, need_serde_attrs) ==
    CASE shape.shape_type = "Structure" -> generate_struct(type_name, shape, need_serde_attrs)
      [] shape.shape_type = "Map" -> generate_map(type_name, shape)
      [] shape.shape_type = "List" -> generate_list(type_name, shape)
      [] OTHER -> generate_primitive_type(type_name, shape.shape_type, "timestamp_type()")

\* a loop body without the `continue` for exception shapes
shape_items_no_continue(name, sh, p) ==
    LET type_name == mutate_type_name(name) IN
    (IF sh.documentation THEN <<Item("doc", type_name)>> ELSE <<>>)
    \o (IF type_name # n_String
        THEN <<generated_type(type_name, sh.body, p.need_serde_attrs)>>
        ELSE <<>>)
    \o (IF p.deserializer THEN <<Item("deserializer", type_name)>> ELSE <<>>)
    \o (IF p.serializer THEN <<Item("serializer", type_name)>> ELSE <<>>)

\* the body of the loop of generate_types for one (name, shape): the items it
\* writes, in order. p is what filter_types and the protocol decide for the shape:
\* whether its struct attributes derive serde, whether it is deserialized and the
\* protocol has a deserializer for it, and the same for a serializer
shape_items(name, sh, p) ==
    LET type_name == mutate_type_name(name) IN
    IF sh.exception THEN <<>>
    ELSE (IF sh.documentation THEN <<Item("doc", type_name)>> ELSE <<>>)
         \o (IF type_name # n_String
             THEN <<generated_type(type_name, sh.body, p.need_serde_attrs)>>
             ELSE <<>>)
         \o (IF p.deserializer
             THEN <<Item("deserializer", type_name)>> ELSE <<>>)
         \o (IF p.serializer
             THEN <<Item("serializer", type_name)>> ELSE <<>>)

ProtocolChoices ==
    [need_serde_attrs : BOOLEAN, deserializer : BOOLEAN, serializer : BOOLEAN]

\* a writeln! that fails returns its error through `?`
Returned(r) == pc' = "returned" /\ result' = r
Panicked(why) == pc' = "panicked" /\ result' = why

GenInit ==
    /\ pc = "start"
    /\ result = "none"
    /\ input \in [protocol : Protocols, create_ok : BOOLEAN]
    /\ generator = "none"
    /\ seen = {}
    /\ cur = <<>>
    /\ chunk = <<>>

\* the (protocol generator, error type generator) the match of generate_source picks
dispatch(protocol) ==
    CASE protocol = "json" -> <<"JsonGenerator", "JsonErrorTypes">>
      [] protocol \in {"query", "ec2"} -> <<"QueryGenerator", "XmlErrorTypes">>
      [] protocol = "rest-json" -> <<"RestJsonGenerator", "JsonErrorTypes">>
      [] protocol = "rest-xml" -> <<"RestXmlGenerator", "XmlErrorTypes">>
      [] OTHER -> <<"panic", "panic">>

\* generate_source up to the loop of generate_types: File::create(..).expect(..),
\* the match on the protocol, and in generate the common prelude and
\* generate_prelude
GenerateSource ==
    /\ pc = "start"
    /\ IF ~input.create_ok
       THEN Panicked("create") /\ UNCHANGED generator
       ELSE IF dispatch(input.protocol)[1] = "panic"
       THEN Panicked("protocol") /\ UNCHANGED generator
       ELSE /\ generator' = dispatch(input.protocol)
            /\ \E write_ok \in BOOLEAN :
                  IF write_ok THEN pc' = "types" /\ UNCHANGED result
                  ELSE Returned("Err(io)")
    /\ UNCHANGED <<input, seen, cur, chunk, futVars, fldVars>>

\* the loop of generate_types, its head: the map yields the next (name, shape),
\* under a name not yet visited
NextShape ==
    /\ pc = "types"
    /\ Cardinality(seen) < MaxShapes
    /\ \E sh \in ShapeInputs :
          /\ sh.name \notin seen
          /\ seen' = seen \cup {sh.name}
          /\ cur' = sh
    /\ pc' = "body"
    /\ chunk' = <<>>
    /\ UNCHANGED <<result, input, generator, futVars, fldVars>>

\* the loop of generate_types, its body for the shape at hand: the first n of
\* its items are written, and a write that fails ends the run
GenerateType ==
    /\ pc = "body"
    /\ \E p \in ProtocolChoices :
          LET items == shape_items(cur.name, cur, p) IN
          IF \E i \in DOMAIN items : items[i].kind = "panic"
          THEN /\ chunk' = SubSeq(items, 1,
                     (CHOOSE i \in DOMAIN items : items[i].kind = "panic") - 1)
               /\ Panicked("primitive")
          ELSE \E n \in 0..Len(items) :
                  /\ chunk' = SubSeq(items, 1, n)
                  /\ IF n = Len(items) THEN pc' = "types" /\ UNCHANGED result
                     ELSE Returned("Err(io)")
    /\ UNCHANGED <<input, generator, seen, cur, futVars, fldVars>>

\* the loop is over: generate_types returns Ok(()), and generate writes the error
\* types, the client and the tests
GenerateRest ==
    /\ pc = "types"
    /\ \E write_ok \in BOOLEAN :
          Returned(IF write_ok THEN "Ok" ELSE "Err(io)")
    /\ UNCHANGED <<input, generator, seen, cur, chunk, futVars, fldVars>>

GenNext == GenerateSource \/ NextShape \/ GenerateType \/ GenerateRest

\* ------------------------------------------------------------ specifications
FutIdle ==
    /\ state = "None" /\ timeout = NoTimeout /\ inner = NoInner /\ ret = NoRet
    /\ syncRes = NoRet /\ origin = NoInner /\ lastOp = [op |-> "none", arg |-> 0]
    /\ signPolls = 0 /\ handlerCalls = 0 /\ respPolls = 0 /\ sig = "none"
    /\ rsp = NoRet

FldIdle ==
    /\ fpc = "idle" /\ serde_attrs = FALSE /\ required = {} /\ members = <<>>
    /\ fields = <<>> /\ joined = <<>>

GenIdle ==
    /\ pc = "idle" /\ result = "none" /\ input = <<>> /\ generator = "none"
    /\ seen = {} /\ cur = <<>> /\ chunk = <<>>

\* a future, built by new() or from a Result, and the calls made on it
InitFuture == FutInit /\ GenIdle /\ FldIdle
SpecFuture == InitFuture /\ [][FutNext]_vars

\* one call of generate_struct_fields
InitFields == FldInit /\ FutIdle /\ GenIdle
SpecFields == InitFields /\ [][FldNext]_vars

\* one run of generate_source
InitGen == GenInit /\ FutIdle /\ FldIdle
SpecGen == InitGen /\ [][GenNext]_vars

\* ------------------------------------------------------------------ claims
TimeoutOps == {"set_timeout", "with_timeout", "clear_timeout"}

\* C1: a future built by new() starts the response handler exactly once when the
\* sign-and-dispatch future has yielded a response, and never when that future
\* has failed or has not yet yielded one; once the future has left the
\* sign-and-dispatch state it never returns to it and the sign-and-dispatch
\* future is not polled again.
C1_HandlerStartedOnce ==
    /\ [](origin.kind = "new" =>
            /\ handlerCalls = (IF sig = "Ready" THEN 1 ELSE 0)
            /\ (state = "RunningResponseHandler" => sig = "Ready")
            /\ (sig = "Ready" => state # "SignAndDispatch"))
    /\ [][(origin.kind = "new" /\ state # "SignAndDispatch") =>
            /\ state' # "SignAndDispatch"
            /\ signPolls' = signPolls
            /\ handlerCalls' = handlerCalls]_vars

\* C1 witness: a response arrived, the handler ran once, and the future was
\* polled again in phase 2
C1_Witness ==
    /\ origin.kind = "new" /\ state = "RunningResponseHandler"
    /\ handlerCalls = 1 /\ signPolls = 1 /\ respPolls = 2

\* C2: an error of the sign-and-dispatch future is returned by that poll, converted
\* to E, with no handler started; an error of the response handler's future is
\* returned by that poll; after either, no state is left, neither inner future is
\* polled again and no handler is started.
C2_ErrorEndsOperation ==
    /\ [](/\ sig \in {"Credentials", "Dispatch"} =>
               /\ ret \in {Err(IntoE(sig)), Panic}
               /\ state = "None" /\ handlerCalls = 0 /\ respPolls = 0
          /\ rsp.kind = "Err" =>
               /\ ret \in {rsp, Panic}
               /\ state = "None"
          /\ ret.kind = "Err" =>
               \/ sig \in {"Credentials", "Dispatch"}
               \/ rsp = ret)
    /\ [][(ret.kind = "Err" \/ sig \in {"Credentials", "Dispatch"} \/ rsp.kind = "Err") =>
            /\ signPolls' = signPolls
            /\ respPolls' = respPolls
            /\ handlerCalls' = handlerCalls
            /\ state' = "None"]_vars

\* C2 witness: a credentials error of phase 1 came back from poll
C2_Witness ==
    /\ sig = "Credentials" /\ ret = Err("E:credentials") /\ state = "None"
    /\ signPolls = 2

\* C3: set_timeout, with_timeout and clear_timeout change nothing but the timeout
\* of the sign-and-dispatch future: in the sign-and-dispatch state they set or
\* clear it, in any other state they change nothing; no timeout exists outside
\* the sign-and-dispatch state.
C3_TimeoutOnlyPhaseOne ==
    /\ [](state # "SignAndDispatch" => timeout = NoTimeout)
    /\ [][lastOp'.op \in TimeoutOps =>
            /\ UNCHANGED <<state, inner, ret, syncRes, signPolls, handlerCalls,
                           respPolls, sig, rsp>>
            /\ timeout' = IF state # "SignAndDispatch" THEN timeout
                          ELSE IF lastOp'.op = "clear_timeout" THEN NoTimeout
                          ELSE lastOp'.arg]_vars

\* C3 witness: set_timeout was called on a future of new() that is running its
\* response handler
C3_Witness ==
    /\ lastOp.op = "set_timeout" /\ origin.kind = "new"
    /\ state = "RunningResponseHandler" /\ timeout = NoTimeout

\* C4: when the destination cannot be created the run returns an I/O error and
\* does not abort; a run aborts only on an unknown protocol or an unsupported
\* shape type.
C4_CreateFailureIsIoError ==
    /\ (pc \in {"returned", "panicked"} /\ ~input.create_ok) =>
          (pc = "returned" /\ result = "Err(io)")
    /\ pc = "panicked" => result \in {"protocol", "primitive"}

\* the type declarations among the items written
NDecl(items) == Cardinality({i \in DOMAIN items : items[i].kind \in Declarations})

\* an iteration of generate_types has run to its end, all writes done
IterationDone == pc = "types" /\ seen # {}

\* C5 as stated: an iteration writes one declaration for a shape that is no
\* exception, whatever its name, and none for an exception.
C5_DeclaredIffNotException ==
    IterationDone => NDecl(chunk) = (IF cur.exception THEN 0 ELSE 1)

\* C5, amended: an iteration of generate_types whose writes succeed writes exactly
\* one declaration for a shape that is no exception and whose translated name is
\* not String, and none for any other shape.
C5_DeclaredIffNotExceptionNorString ==
    IterationDone =>
       NDecl(chunk) = (IF ~cur.exception /\ mutate_type_name(cur.name) # n_String
                       THEN 1 ELSE 0)

\* C5 witness: a documented shape named Error, no exception, got its one
\* declaration between its doc line and its serializer
C5_Witness ==
    /\ IterationDone /\ ~cur.exception /\ cur.name = n_Error
    /\ Len(chunk) >= 3 /\ NDecl(chunk) = 1

\* C6: the key and value types written in a Map alias are the translated names
\* (mutate_type_name) of the key and value shapes.
C6_MapAliasUsesTranslatedNames ==
    \A i \in DOMAIN chunk :
       chunk[i].kind = "map" =>
          /\ chunk[i].key = mutate_type_name(cur.body.key)
          /\ chunk[i].value = mutate_type_name(cur.body.value)

\* the members that are not flagged deprecated, in the order of the iteration
Kept == SelectSeq(members, LAMBDA m : m.deprecated # "Some(true)")

\* C7: the fields emitted are, in member order, one for each member not flagged
\* deprecated, and none for a deprecated member.
C7_OneFieldPerKeptMember ==
    /\ Len(fields) = Len(Kept)
    /\ \A i \in DOMAIN fields : fields[i].id = generate_field_name(Kept[i].name)
    /\ fpc = "joined" => joined = fields

\* C7 witness: a structure of one deprecated and one normal member gave one field
C7_Witness ==
    /\ fpc = "joined" /\ Len(members) = 2 /\ Len(joined) = 1
    /\ members[1].deprecated = "Some(true)" /\ members[2].deprecated = "Some(false)"

\* C8: the field of a member in the required set has the bare translated type of
\* the member's shape, the field of any other member that type wrapped in Option.
C8_RequiredBareElseOption ==
    Len(fields) = Len(Kept) /\
    \A i \in DOMAIN fields :
       /\ fields[i].ty = mutate_type_name(Kept[i].shape)
       /\ fields[i].optional = (Kept[i].name \notin required)

\* C8 witness: one structure with a bare field and an Option field
C8_Witness ==
    /\ fpc = "joined"
    /\ \E i, j \in DOMAIN joined : ~joined[i].optional /\ joined[j].optional
    /\ required # {}

\* C9: a field's identifier is the member name in snake case, with the escape
\* marker when that is return or type; return and type themselves are never
\* identifiers, and no field takes the aws_ prefix.
C9_ReservedWordsEscaped ==
    Len(fields) = Len(Kept) /\
    \A i \in DOMAIN fields :
       LET snake == to_snake_case(Kept[i].name) IN
       /\ fields[i].prefix = ""
       /\ fields[i].id \notin {kw_return, kw_type}
       /\ fields[i].id = (IF snake \in {kw_return, kw_type}
                          THEN snake \o <<"_">> ELSE snake)

\* C9 witness: an optional member named type became the field type_
C9_Witness ==
    /\ fpc = "joined"
    /\ \E i \in DOMAIN joined :
          /\ Kept[i].name = kw_type /\ kw_type \notin required
          /\ joined[i].id = <<"t","y","p","e","_">> /\ joined[i].optional

\* C10: a future built from a Result starts in the response-handler state, polls
\* no sign-and-dispatch future and runs no handler, and its first poll (and
\* sync) resolves to that Result.
C10_FromResult ==
    origin.kind = "from" =>
       /\ signPolls = 0 /\ handlerCalls = 0 /\ sig = "none"
       /\ state = (IF respPolls = 0 THEN "RunningResponseHandler" ELSE "None")
       /\ respPolls <= 1
       /\ ret.kind # "NotReady"
       /\ respPolls = 1 =>
             \/ ret = Panic
             \/ ret = (IF origin.ok THEN Ready(origin.val) ELSE Err(origin.err))
       /\ syncRes.kind \in {"Ready", "Err"} =>
             syncRes = (IF origin.ok THEN Ready(origin.val) ELSE Err(origin.err))

\* C10 witness: sync on a future built from Ok(v) returned Ok(v)
C10_Witness ==
    /\ origin.kind = "from" /\ origin.ok
    /\ syncRes = Ready(origin.val) /\ respPolls = 1

\* C11: between calls of poll the state is empty exactly when a poll has returned
\* a value or an error: a poll that returns NotReady, in either phase and also
\* when phase 1 completes and phase 2 is pending in the same call, leaves a state
\* stored; poll panics on the empty state only after the future has resolved.
C11_EmptyIffResolved ==
    /\ [](/\ state = "None" <=> ret.kind \in {"Ready", "Err", "panic"}
          /\ ret.kind \in {"none", "NotReady"} =>
                state \in {"SignAndDispatch", "RunningResponseHandler"}
          /\ ret.kind = "panic" =>
                (sig \in {"Credentials", "Dispatch"} \/ rsp.kind \in {"Ready", "Err"}))
    /\ [][lastOp'.op = "poll" =>
            /\ ret'.kind = "panic" <=> ret.kind \in {"Ready", "Err"}
            /\ ret'.kind = "NotReady" => state' # "None"
            /\ ret'.kind \in {"Ready", "Err"} => state' = "None"]_vars

\* C11 witness: one poll completed phase 1 and found phase 2 pending, and the
\* response-handler state is stored
C11_Witness ==
    /\ origin.kind = "new" /\ signPolls = 1 /\ respPolls = 1 /\ handlerCalls = 1
    /\ ret = NotReady /\ state = "RunningResponseHandler"
    /\ lastOp.op = "poll"

====
